---------------------------- MODULE Spec2Model ----------------------------
(***************************************************************************)
(* Model of crates/openvino/src/error.rs: the translation of a native      *)
(* status code and the native last-error message into an InferenceError,   *)
(* and the composition of InferenceError and LoadingError into SetupError. *)
(*                                                                         *)
(* A Rust String is modelled as what it is, a sequence of UTF-8 bytes      *)
(* (integers 0..255).  Text produced by Display is a TLA+ string; the      *)
(* bytes of a String are shown in it one character per Unicode scalar      *)
(* value: printable ASCII as itself, anything else as the Rust escape      *)
(* \u{hex}.                                                                *)
(***************************************************************************)
EXTENDS Integers, Sequences, FiniteSets, TLC

(***************************************************************************)
(* Bounds of the model.                                                    *)
(***************************************************************************)
\* longest message (in bytes) a native call writes in Spec
MaxMsgLen == 2
\* longest message (in bytes) a native call writes in SpecRace
MaxRaceLen == 1

(***************************************************************************)
(* The status codes named in InferenceError::from.  The values are those   *)
(* of the ov_status_e enumeration of the OpenVINO C API, which the         *)
(* bindings import verbatim.                                               *)
(***************************************************************************)
ov_status_e_OK == 0
ov_status_e_GENERAL_ERROR == -1
ov_status_e_NOT_IMPLEMENTED == -2
ov_status_e_NETWORK_NOT_LOADED == -3
ov_status_e_PARAMETER_MISMATCH == -4
ov_status_e_NOT_FOUND == -5
ov_status_e_OUT_OF_BOUNDS == -6
ov_status_e_UNEXPECTED == -7
ov_status_e_REQUEST_BUSY == -8
ov_status_e_RESULT_NOT_READY == -9
ov_status_e_NOT_ALLOCATED == -10
ov_status_e_INFER_NOT_STARTED == -11
ov_status_e_NETWORK_NOT_READ == -12
ov_status_e_INFER_CANCELLED == -13
ov_status_e_INVALID_C_PARAM == -14
ov_status_e_UNKNOWN_C_ERROR == -15
ov_status_e_NOT_IMPLEMENT_C_METHOD == -16
ov_status_e_UNKNOW_EXCEPTION == -17

\* the range of the i32 parameter of InferenceError::from
I32Min == -2147483647 - 1
I32Max == 2147483647

(***************************************************************************)
(* CStr::from_ptr(..).to_string_lossy().into_owned()                       *)
(***************************************************************************)
\* CStr::from_ptr: the bytes of the buffer before its first NUL
RECURSIVE CStrFromPtr(_)
CStrFromPtr(buf) ==
    IF buf = <<>> \/ Head(buf) = 0 THEN <<>>
    ELSE <<Head(buf)>> \o CStrFromPtr(Tail(buf))

\* U+FFFD REPLACEMENT CHARACTER, in UTF-8
REPLACEMENT == <<239, 191, 189>>

\* a UTF-8 continuation byte, 0x80..=0xBF
IsCont(b) == b >= 128 /\ b <= 191

\* the length of the UTF-8 sequence a first byte announces, 0 if it is none
utf8_char_width(b) ==
    IF b < 128 THEN 1
    ELSE IF b >= 194 /\ b <= 223 THEN 2
    ELSE IF b >= 224 /\ b <= 239 THEN 3
    ELSE IF b >= 240 /\ b <= 244 THEN 4
    ELSE 0

\* the byte at index i, 0 past the end
safe_get(s, i) == IF i <= Len(s) THEN s[i] ELSE 0

\* the second byte a three-byte sequence starting with `first` accepts
Second3Ok(first, b) ==
    \/ first = 224 /\ b >= 160 /\ b <= 191
    \/ first >= 225 /\ first <= 236 /\ IsCont(b)
    \/ first = 237 /\ b >= 128 /\ b <= 159
    \/ first >= 238 /\ first <= 239 /\ IsCont(b)

\* the second byte a four-byte sequence starting with `first` accepts
Second4Ok(first, b) ==
    \/ first = 240 /\ b >= 144 /\ b <= 191
    \/ first >= 241 /\ first <= 243 /\ IsCont(b)
    \/ first = 244 /\ b >= 128 /\ b <= 143

\* the chunk starting at index i of s: a valid character of `len` bytes, or
\* an invalid sequence of `len` bytes (a maximal invalid prefix)
ChunkAt(s, i) ==
    LET first == s[i]
        w == utf8_char_width(first)
        b2 == safe_get(s, i + 1)
        b3 == safe_get(s, i + 2)
        b4 == safe_get(s, i + 3)
    IN  CASE w = 1 -> [valid |-> TRUE, len |-> 1]
          [] w = 2 -> IF IsCont(b2) THEN [valid |-> TRUE, len |-> 2]
                      ELSE [valid |-> FALSE, len |-> 1]
          [] w = 3 -> IF ~Second3Ok(first, b2) THEN [valid |-> FALSE, len |-> 1]
                      ELSE IF ~IsCont(b3) THEN [valid |-> FALSE, len |-> 2]
                      ELSE [valid |-> TRUE, len |-> 3]
          [] w = 4 -> IF ~Second4Ok(first, b2) THEN [valid |-> FALSE, len |-> 1]
                      ELSE IF ~IsCont(b3) THEN [valid |-> FALSE, len |-> 2]
                      ELSE IF ~IsCont(b4) THEN [valid |-> FALSE, len |-> 3]
                      ELSE [valid |-> TRUE, len |-> 4]
          [] OTHER -> [valid |-> FALSE, len |-> 1]

RECURSIVE LossyFrom(_, _)
LossyFrom(s, i) ==
    IF i > Len(s) THEN <<>>
    ELSE LET c == ChunkAt(s, i)
         IN  (IF c.valid THEN SubSeq(s, i, i + c.len - 1) ELSE REPLACEMENT)
                 \o LossyFrom(s, i + c.len)

\* to_string_lossy: valid UTF-8 is kept, every invalid sequence becomes U+FFFD
to_string_lossy(s) == LossyFrom(s, 1)

(***************************************************************************)
(* Display of the payloads: {message} writes the String, {0} the i32.      *)
(***************************************************************************)
HexDigit(d) ==
    CASE d = 0 -> "0" [] d = 1 -> "1" [] d = 2 -> "2" [] d = 3 -> "3"
      [] d = 4 -> "4" [] d = 5 -> "5" [] d = 6 -> "6" [] d = 7 -> "7"
      [] d = 8 -> "8" [] d = 9 -> "9" [] d = 10 -> "a" [] d = 11 -> "b"
      [] d = 12 -> "c" [] d = 13 -> "d" [] d = 14 -> "e" [] d = 15 -> "f"

RECURSIVE Hex(_)
Hex(n) == IF n < 16 THEN HexDigit(n) ELSE Hex(n \div 16) \o HexDigit(n % 16)

\* the character of a Unicode scalar value, as the text shows it
Glyph(cp) ==
    CASE cp = 32 -> " "
      [] cp = 55 -> "7"
      [] cp = 100 -> "d"
      [] cp = 101 -> "e"
      [] cp = 105 -> "i"
      [] cp = 108 -> "l"
      [] cp = 109 -> "m"
      [] cp = 111 -> "o"
      [] OTHER -> "\\u{" \o Hex(cp) \o "}"

\* the scalar value of the valid UTF-8 character of n bytes at index i of s
CodePoint(s, i, n) ==
    CASE n = 1 -> s[i]
      [] n = 2 -> (s[i] - 192) * 64 + (s[i + 1] - 128)
      [] n = 3 -> (s[i] - 224) * 4096 + (s[i + 1] - 128) * 64 + (s[i + 2] - 128)
      [] n = 4 -> (s[i] - 240) * 262144 + (s[i + 1] - 128) * 4096
                     + (s[i + 2] - 128) * 64 + (s[i + 3] - 128)

RECURSIVE ShowFrom(_, _)
ShowFrom(s, i) ==
    IF i > Len(s) THEN ""
    ELSE LET n == utf8_char_width(s[i])
         IN  Glyph(CodePoint(s, i, n)) \o ShowFrom(s, i + n)

\* Display of a String: its characters, unchanged
FmtString(s) == ShowFrom(s, 1)

RECURSIVE FmtNat(_)
FmtNat(n) == IF n < 10 THEN HexDigit(n) ELSE FmtNat(n \div 10) \o HexDigit(n % 10)

\* the decimal digits of the magnitude of a negative i32; the magnitude of
\* i32::MIN does not fit an i32 and is computed without negating n
FmtMagnitude(n) ==
    LET m == -(n + 1)
        hi == (m \div 10) + (IF m % 10 = 9 THEN 1 ELSE 0)
        lo == ((m % 10) + 1) % 10
    IN  (IF hi = 0 THEN "" ELSE FmtNat(hi)) \o HexDigit(lo)

\* Display of an i32: decimal, with a minus sign when negative
FmtI32(n) == IF n < 0 THEN "-" \o FmtMagnitude(n) ELSE FmtNat(n)

(***************************************************************************)
(* InferenceError, LoadingError, SetupError and Result<(), InferenceError> *)
(***************************************************************************)
\* the 17 variants that carry { message: String }
MessageKinds ==
    {"GeneralError", "NotImplemented", "NetworkNotLoaded", "ParameterMismatch",
     "NotFound", "OutOfBounds", "Unexpected", "RequestBusy",
     "ResultNotReady", "NotAllocated", "InferNotStarted", "NetworkNotRead",
     "InferCancelled", "InvalidCParam", "UnknownCError", "NotImplementCMethod",
     "UnknownException"}

\* a message-carrying variant, e.g. NotFound { message }
MessageError(kind, message) == [kind |-> kind, message |-> message]

\* Undefined(i32)
Undefined(code) == [kind |-> "Undefined", code |-> code]

\* Result<(), InferenceError>
Ok == [tag |-> "Ok"]
Err(e) == [tag |-> "Err", err |-> e]

\* a caller that holds no result yet
NoResult == [tag |-> "None"]

\* the match of InferenceError::from on a code that is not OK
from_match(error_code, message) ==
    CASE error_code = ov_status_e_GENERAL_ERROR ->
             Err(MessageError("GeneralError", message))
      [] error_code = ov_status_e_NOT_IMPLEMENTED ->
             Err(MessageError("NotImplemented", message))
      [] error_code = ov_status_e_NETWORK_NOT_LOADED ->
             Err(MessageError("NetworkNotLoaded", message))
      [] error_code = ov_status_e_PARAMETER_MISMATCH ->
             Err(MessageError("ParameterMismatch", message))
      [] error_code = ov_status_e_NOT_FOUND ->
             Err(MessageError("NotFound", message))
      [] error_code = ov_status_e_OUT_OF_BOUNDS ->
             Err(MessageError("OutOfBounds", message))
      [] error_code = ov_status_e_UNEXPECTED ->
             Err(MessageError("Unexpected", message))
      [] error_code = ov_status_e_REQUEST_BUSY ->
             Err(MessageError("RequestBusy", message))
      [] error_code = ov_status_e_RESULT_NOT_READY ->
             Err(MessageError("ResultNotReady", message))
      [] error_code = ov_status_e_NOT_ALLOCATED ->
             Err(MessageError("NotAllocated", message))
      [] error_code = ov_status_e_INFER_NOT_STARTED ->
             Err(MessageError("InferNotStarted", message))
      [] error_code = ov_status_e_NETWORK_NOT_READ ->
             Err(MessageError("NetworkNotRead", message))
      [] error_code = ov_status_e_INFER_CANCELLED ->
             Err(MessageError("InferCancelled", message))
      [] error_code = ov_status_e_INVALID_C_PARAM ->
             Err(MessageError("InvalidCParam", message))
      [] error_code = ov_status_e_UNKNOWN_C_ERROR ->
             Err(MessageError("UnknownCError", message))
      [] error_code = ov_status_e_NOT_IMPLEMENT_C_METHOD ->
             Err(MessageError("NotImplementCMethod", message))
      [] error_code = ov_status_e_UNKNOW_EXCEPTION ->
             Err(MessageError("UnknownException", message))
      [] OTHER -> Err(Undefined(error_code))

\* Mutation of DisplayInferenceError: the message is written without its
\* parentheses and the code of Undefined without its sign.
DisplayInferenceErrorBare(e) ==
    IF e.kind = "Undefined"
    THEN "undefined error code: " \o (IF e.code < 0 THEN FmtMagnitude(e.code) ELSE FmtNat(e.code))
    ELSE "error: " \o FmtString(e.message)

\* Display of InferenceError, derived from the #[error("...")] attributes
DisplayInferenceError(e) ==
    CASE e.kind = "GeneralError" ->
             "general error: (" \o FmtString(e.message) \o ")"
      [] e.kind = "NotImplemented" ->
             "not implemented: (" \o FmtString(e.message) \o ")"
      [] e.kind = "NetworkNotLoaded" ->
             "network not loaded: (" \o FmtString(e.message) \o ")"
      [] e.kind = "ParameterMismatch" ->
             "parameter mismatch: (" \o FmtString(e.message) \o ")"
      [] e.kind = "NotFound" ->
             "not found: (" \o FmtString(e.message) \o ")"
      [] e.kind = "OutOfBounds" ->
             "out of bounds: (" \o FmtString(e.message) \o ")"
      [] e.kind = "Unexpected" ->
             "unexpected: (" \o FmtString(e.message) \o ")"
      [] e.kind = "RequestBusy" ->
             "request busy: (" \o FmtString(e.message) \o ")"
      [] e.kind = "ResultNotReady" ->
             "result not ready: (" \o FmtString(e.message) \o ")"
      [] e.kind = "NotAllocated" ->
             "not allocated: (" \o FmtString(e.message) \o ")"
      [] e.kind = "InferNotStarted" ->
             "infer not started: (" \o FmtString(e.message) \o ")"
      [] e.kind = "NetworkNotRead" ->
             "network not read: (" \o FmtString(e.message) \o ")"
      [] e.kind = "InferCancelled" ->
             "infer cancelled: (" \o FmtString(e.message) \o ")"
      [] e.kind = "InvalidCParam" ->
             "invalid c parameter: (" \o FmtString(e.message) \o ")"
      [] e.kind = "UnknownCError" ->
             "unknown C error: (" \o FmtString(e.message) \o ")"
      [] e.kind = "NotImplementCMethod" ->
             "not implemented C method: (" \o FmtString(e.message) \o ")"
      [] e.kind = "UnknownException" ->
             "unknown exception: (" \o FmtString(e.message) \o ")"
      [] e.kind = "Undefined" ->
             "undefined error code: " \o FmtI32(e.code)

\* LoadingError: SystemFailure(String) and three variants without payload
SystemFailure(s) == [kind |-> "SystemFailure", detail |-> s]
CannotFindLibraryPath == [kind |-> "CannotFindLibraryPath"]
CannotFindPluginPath == [kind |-> "CannotFindPluginPath"]
CannotStringifyPath == [kind |-> "CannotStringifyPath"]

\* Mutation of from_inference: only the kind of the error is kept.
from_inference_kind_only(e) == [tag |-> "Inference", inner |-> [kind |-> e.kind]]

\* impl From<InferenceError> for SetupError, derived from #[from]
from_inference(e) == [tag |-> "Inference", inner |-> e]

\* impl From<LoadingError> for SetupError, derived from #[from]
from_loading(l) == [tag |-> "Loading", inner |-> l]

\* a caller that holds no SetupError
NoSetup == [tag |-> "None"]

\* Mutation of DisplaySetupError: the text of the wrapped InferenceError is
\* appended, as a transparent wrapper would show it.
DisplaySetupErrorWithInner(s) ==
    CASE s.tag = "Inference" -> "inference error: " \o DisplayInferenceError(s.inner)
      [] s.tag = "Loading" -> "library loading error"

\* Display of SetupError, derived from the #[error("...")] attributes
DisplaySetupError(s) ==
    CASE s.tag = "Inference" -> "inference error"
      [] s.tag = "Loading" -> "library loading error"

\* match on a SetupError: the arm taken and the value it binds
match_setup(s) ==
    CASE s.tag = "Inference" -> [arm |-> "Inference", value |-> s.inner]
      [] s.tag = "Loading" -> [arm |-> "Loading", value |-> s.inner]

NoMatch == [arm |-> "None"]

(***************************************************************************)
(* The inputs the model draws from.                                        *)
(***************************************************************************)
\* the threads that call into the native engine and translate its status
Threads == {"t1", "t2"}

\* the thread that runs alone in Spec
Main == "t1"

\* all sequences over A of length at most n
BoundedSeqs(A, n) == UNION {[1..k -> A] : k \in 0..n}

\* "model id 7"
ModelId7 == <<109, 111, 100, 101, 108, 32, 105, 100, 32, 55>>

\* bytes a message is made of: '7', 0xC3 and 0xA9 (together U+00E9), 0xE2 (the
\* first byte of a three-byte character) and 0xFF (never valid)
MsgBytes == {55, 195, 169, 226, 255}

\* the C strings a failing native call may leave in the last-error buffer
Messages == BoundedSeqs(MsgBytes, MaxMsgLen) \cup {ModelId7}

KnownCodes ==
    {ov_status_e_GENERAL_ERROR, ov_status_e_NOT_IMPLEMENTED,
     ov_status_e_NETWORK_NOT_LOADED, ov_status_e_PARAMETER_MISMATCH,
     ov_status_e_NOT_FOUND, ov_status_e_OUT_OF_BOUNDS, ov_status_e_UNEXPECTED,
     ov_status_e_REQUEST_BUSY, ov_status_e_RESULT_NOT_READY,
     ov_status_e_NOT_ALLOCATED, ov_status_e_INFER_NOT_STARTED,
     ov_status_e_NETWORK_NOT_READ, ov_status_e_INFER_CANCELLED,
     ov_status_e_INVALID_C_PARAM, ov_status_e_UNKNOWN_C_ERROR,
     ov_status_e_NOT_IMPLEMENT_C_METHOD, ov_status_e_UNKNOW_EXCEPTION}

\* codes outside the table: next to it on both sides, and the ends of i32
UnknownCodes == {1, -18, 9999, I32Min, I32Max}

\* the status codes a native call returns in Spec
Codes == {ov_status_e_OK} \cup KnownCodes \cup UnknownCodes

\* the status codes and messages of SpecRace
RaceCodes == {ov_status_e_OK, ov_status_e_NOT_FOUND, ov_status_e_REQUEST_BUSY, 9999}
RaceMessages == BoundedSeqs({55, 255}, MaxRaceLen)

\* the LoadingErrors the library discovery may raise
LoadingErrors ==
    {SystemFailure(to_string_lossy(m)) : m \in Messages}
        \cup {CannotFindLibraryPath, CannotFindPluginPath, CannotStringifyPath}

(***************************************************************************)
(* State.                                                                  *)
(***************************************************************************)
VARIABLES
    last_err_msg,   \* the native layer's process-wide last-error buffer (NUL-terminated)
    pc,             \* per thread: where it is
    error_code,     \* per thread: the status code its native call returned
    message,        \* per thread: the local `message` of InferenceError::from
    result,         \* per thread: what InferenceError::from returned
    text,           \* per thread: the InferenceError rendered with Display ("" if not yet)
    setup,          \* per thread: the SetupError it holds
    setup_text,     \* per thread: the SetupError rendered with Display ("" if not yet)
    matched,        \* per thread: the arm and value a match on its SetupError gave
    did_read,       \* history, per thread: this call of from read the last-error buffer
    own,            \* history, per thread: the message its own failing native call wrote
    interposed,     \* history, per thread: another native call ran after its own and before its read
    original        \* history, per thread: the family and value its SetupError was made from

vars == <<last_err_msg, pc, error_code, message, result, text, setup, setup_text,
          matched, did_read, own, interposed, original>>

callerVars == <<text, setup, setup_text, matched, original>>

Init ==
    /\ last_err_msg = <<0>>
    /\ pc = [t \in Threads |-> "idle"]
    /\ error_code = [t \in Threads |-> ov_status_e_OK]
    /\ message = [t \in Threads |-> <<>>]
    /\ result = [t \in Threads |-> NoResult]
    /\ text = [t \in Threads |-> ""]
    /\ setup = [t \in Threads |-> NoSetup]
    /\ setup_text = [t \in Threads |-> ""]
    /\ matched = [t \in Threads |-> NoMatch]
    /\ did_read = [t \in Threads |-> FALSE]
    /\ own = [t \in Threads |-> <<>>]
    /\ interposed = [t \in Threads |-> FALSE]
    /\ original = [t \in Threads |-> NoMatch]

(***************************************************************************)
(* The native layer.                                                       *)
(***************************************************************************)
\* Thread t makes a native call that returns status c.  A failing call
\* overwrites the last-error buffer with m; the status is the caller's own.
\* The native layer is taken to keep the buffer a NUL-terminated string at all
\* times and to write it in one step: ov_get_last_err_msg never returns null
\* and a read never sees a half-written message.
NativeCall(t, c, m) ==
    /\ pc[t] = "idle"
    /\ error_code' = [error_code EXCEPT ![t] = c]
    /\ last_err_msg' = IF c = ov_status_e_OK THEN last_err_msg ELSE m \o <<0>>
    /\ own' = [own EXCEPT ![t] = IF c = ov_status_e_OK THEN <<>> ELSE m]
    /\ interposed' = [u \in Threads |->
                         IF u # t /\ pc[u] \in {"from", "read"} THEN TRUE
                         ELSE interposed[u]]
    /\ pc' = [pc EXCEPT ![t] = "from"]
    /\ UNCHANGED <<message, result, did_read>>
    /\ UNCHANGED callerVars

(***************************************************************************)
(* InferenceError::from(error_code), one step per statement.               *)
(***************************************************************************)
\* Mutation of FromCheck: the last-error buffer is read before the code is
\* tested.
FromCheckReadsFirst(t) ==
    /\ pc[t] = "from"
    /\ message' = [message EXCEPT ![t] = to_string_lossy(CStrFromPtr(last_err_msg))]
    /\ did_read' = [did_read EXCEPT ![t] = TRUE]
    /\ IF error_code[t] = ov_status_e_OK
       THEN /\ result' = [result EXCEPT ![t] = Ok]
            /\ pc' = [pc EXCEPT ![t] = "returned"]
       ELSE /\ pc' = [pc EXCEPT ![t] = "match"]
            /\ UNCHANGED result
    /\ UNCHANGED <<last_err_msg, error_code, own, interposed>>
    /\ UNCHANGED callerVars

\* if error_code == ov_status_e_OK { return Ok(()); }
FromCheck(t) ==
    /\ pc[t] = "from"
    /\ IF error_code[t] = ov_status_e_OK
       THEN /\ result' = [result EXCEPT ![t] = Ok]
            /\ pc' = [pc EXCEPT ![t] = "returned"]
       ELSE /\ pc' = [pc EXCEPT ![t] = "read"]
            /\ UNCHANGED result
    /\ UNCHANGED <<last_err_msg, error_code, message, did_read, own, interposed>>
    /\ UNCHANGED callerVars

\* Mutation of FromRead: the buffer is not read and the message stays empty.
FromReadSkips(t) ==
    /\ pc[t] = "read"
    /\ message' = [message EXCEPT ![t] = <<>>]
    /\ did_read' = [did_read EXCEPT ![t] = TRUE]
    /\ pc' = [pc EXCEPT ![t] = "match"]
    /\ UNCHANGED <<last_err_msg, error_code, result, own, interposed>>
    /\ UNCHANGED callerVars

\* Mutation of FromRead: the read waits while another thread is between its
\* native call and its own read, as under a lock around the pair.
FromReadLocked(t) ==
    /\ pc[t] = "read"
    /\ \A u \in Threads \ {t} : pc[u] \notin {"from", "read"}
    /\ message' = [message EXCEPT ![t] = to_string_lossy(CStrFromPtr(last_err_msg))]
    /\ did_read' = [did_read EXCEPT ![t] = TRUE]
    /\ pc' = [pc EXCEPT ![t] = "match"]
    /\ UNCHANGED <<last_err_msg, error_code, result, own, interposed>>
    /\ UNCHANGED callerVars

\* let message = CStr::from_ptr(ov_get_last_err_msg()).to_string_lossy().into_owned();
FromRead(t) ==
    /\ pc[t] = "read"
    /\ message' = [message EXCEPT ![t] = to_string_lossy(CStrFromPtr(last_err_msg))]
    /\ did_read' = [did_read EXCEPT ![t] = TRUE]
    /\ pc' = [pc EXCEPT ![t] = "match"]
    /\ UNCHANGED <<last_err_msg, error_code, result, own, interposed>>
    /\ UNCHANGED callerVars

\* Mutation of FromMatch: the message is dropped.
FromMatchNoMessage(t) ==
    /\ pc[t] = "match"
    /\ result' = [result EXCEPT ![t] = from_match(error_code[t], <<>>)]
    /\ pc' = [pc EXCEPT ![t] = "returned"]
    /\ UNCHANGED <<last_err_msg, error_code, message, did_read, own, interposed>>
    /\ UNCHANGED callerVars

\* Mutation of FromMatch: the code is narrowed to 16 bits before the match.
FromMatchNarrows(t) ==
    /\ pc[t] = "match"
    /\ result' = [result EXCEPT ![t] =
                     from_match((((error_code[t] % 65536) + 32768) % 65536) - 32768,
                                message[t])]
    /\ pc' = [pc EXCEPT ![t] = "returned"]
    /\ UNCHANGED <<last_err_msg, error_code, message, did_read, own, interposed>>
    /\ UNCHANGED callerVars

\* Mutation of FromMatch: the match has no arm for a code outside the table.
FromMatchNoDefault(t) ==
    /\ pc[t] = "match"
    /\ error_code[t] \in KnownCodes
    /\ result' = [result EXCEPT ![t] = from_match(error_code[t], message[t])]
    /\ pc' = [pc EXCEPT ![t] = "returned"]
    /\ UNCHANGED <<last_err_msg, error_code, message, did_read, own, interposed>>
    /\ UNCHANGED callerVars

\* Mutation of FromMatch: an empty message makes the error Undefined.
FromMatchByMessage(t) ==
    /\ pc[t] = "match"
    /\ result' = [result EXCEPT ![t] =
                     IF message[t] = <<>> THEN Err(Undefined(error_code[t]))
                     ELSE from_match(error_code[t], message[t])]
    /\ pc' = [pc EXCEPT ![t] = "returned"]
    /\ UNCHANGED <<last_err_msg, error_code, message, did_read, own, interposed>>
    /\ UNCHANGED callerVars

\* match error_code { ... }
FromMatch(t) ==
    /\ pc[t] = "match"
    /\ result' = [result EXCEPT ![t] = from_match(error_code[t], message[t])]
    /\ pc' = [pc EXCEPT ![t] = "returned"]
    /\ UNCHANGED <<last_err_msg, error_code, message, did_read, own, interposed>>
    /\ UNCHANGED callerVars

(***************************************************************************)
(* What a caller does with the result.                                     *)
(***************************************************************************)
\* the caller renders the InferenceError: e.to_string()
Render(t) ==
    /\ pc[t] = "returned"
    /\ result[t].tag = "Err"
    /\ text[t] = ""
    /\ text' = [text EXCEPT ![t] = DisplayInferenceError(result[t].err)]
    /\ UNCHANGED <<last_err_msg, pc, error_code, message, result, did_read, own,
                   interposed, setup, setup_text, matched, original>>

\* the caller propagates the InferenceError as a SetupError: SetupError::from(e)
WrapInference(t) ==
    /\ pc[t] = "returned"
    /\ result[t].tag = "Err"
    /\ setup' = [setup EXCEPT ![t] = from_inference(result[t].err)]
    /\ original' = [original EXCEPT ![t] =
                        [arm |-> "Inference", value |-> result[t].err]]
    /\ pc' = [pc EXCEPT ![t] = "setup"]
    /\ UNCHANGED <<last_err_msg, error_code, message, result, did_read, own,
                   interposed, text, setup_text, matched>>

\* library discovery fails with l and the caller propagates it: SetupError::from(l)
WrapLoading(t, l) ==
    /\ pc[t] = "idle"
    /\ setup' = [setup EXCEPT ![t] = from_loading(l)]
    /\ original' = [original EXCEPT ![t] = [arm |-> "Loading", value |-> l]]
    /\ pc' = [pc EXCEPT ![t] = "setup"]
    /\ UNCHANGED <<last_err_msg, error_code, message, result, did_read, own,
                   interposed, text, setup_text, matched>>

\* the caller renders the SetupError
RenderSetup(t) ==
    /\ pc[t] = "setup"
    /\ setup_text[t] = ""
    /\ setup_text' = [setup_text EXCEPT ![t] = DisplaySetupError(setup[t])]
    /\ UNCHANGED <<last_err_msg, pc, error_code, message, result, did_read, own,
                   interposed, text, setup, matched, original>>

\* the caller matches on the SetupError
MatchSetup(t) ==
    /\ pc[t] = "setup"
    /\ matched[t] = NoMatch
    /\ matched' = [matched EXCEPT ![t] = match_setup(setup[t])]
    /\ UNCHANGED <<last_err_msg, pc, error_code, message, result, did_read, own,
                   interposed, text, setup, setup_text, original>>

\* the caller drops what it holds and is ready for its next call
Finish(t) ==
    /\ pc[t] \in {"returned", "setup"}
    /\ pc' = [pc EXCEPT ![t] = "idle"]
    /\ error_code' = [error_code EXCEPT ![t] = ov_status_e_OK]
    /\ message' = [message EXCEPT ![t] = <<>>]
    /\ result' = [result EXCEPT ![t] = NoResult]
    /\ text' = [text EXCEPT ![t] = ""]
    /\ setup' = [setup EXCEPT ![t] = NoSetup]
    /\ setup_text' = [setup_text EXCEPT ![t] = ""]
    /\ matched' = [matched EXCEPT ![t] = NoMatch]
    /\ did_read' = [did_read EXCEPT ![t] = FALSE]
    /\ own' = [own EXCEPT ![t] = <<>>]
    /\ interposed' = [interposed EXCEPT ![t] = FALSE]
    /\ original' = [original EXCEPT ![t] = NoMatch]
    /\ UNCHANGED last_err_msg

(***************************************************************************)
(* Spec: one thread, every status code and message, translation and        *)
(* composition.                                                            *)
(***************************************************************************)
Next ==
    \/ \E c \in Codes, m \in Messages : NativeCall(Main, c, m)
    \/ FromCheck(Main)
    \/ FromRead(Main)
    \/ FromMatch(Main)
    \/ Render(Main)
    \/ WrapInference(Main)
    \/ \E l \in LoadingErrors : WrapLoading(Main, l)
    \/ RenderSetup(Main)
    \/ MatchSetup(Main)
    \/ Finish(Main)

Spec == Init /\ [][Next]_vars

(***************************************************************************)
(* SpecRace: the threads share the native engine with no serialization.    *)
(***************************************************************************)
NextRace ==
    \E t \in Threads :
        \/ \E c \in RaceCodes, m \in RaceMessages : NativeCall(t, c, m)
        \/ FromCheck(t)
        \/ FromRead(t)
        \/ FromMatch(t)
        \/ Finish(t)

SpecRace == Init /\ [][NextRace]_vars

(***************************************************************************)
(* Definitions the properties are stated with.                             *)
(***************************************************************************)
\* the C string now in the last-error buffer
Channel == CStrFromPtr(last_err_msg)

\* every chunk of s from index i on is a valid UTF-8 character
RECURSIVE ValidFrom(_, _)
ValidFrom(s, i) ==
    \/ i > Len(s)
    \/ ChunkAt(s, i).valid /\ ValidFrom(s, i + ChunkAt(s, i).len)

ValidUtf8(s) == ValidFrom(s, 1)

\* the table of status codes and variants
TableVariant(c) ==
    CASE c = ov_status_e_GENERAL_ERROR -> "GeneralError"
      [] c = ov_status_e_NOT_IMPLEMENTED -> "NotImplemented"
      [] c = ov_status_e_NETWORK_NOT_LOADED -> "NetworkNotLoaded"
      [] c = ov_status_e_PARAMETER_MISMATCH -> "ParameterMismatch"
      [] c = ov_status_e_NOT_FOUND -> "NotFound"
      [] c = ov_status_e_OUT_OF_BOUNDS -> "OutOfBounds"
      [] c = ov_status_e_UNEXPECTED -> "Unexpected"
      [] c = ov_status_e_REQUEST_BUSY -> "RequestBusy"
      [] c = ov_status_e_RESULT_NOT_READY -> "ResultNotReady"
      [] c = ov_status_e_NOT_ALLOCATED -> "NotAllocated"
      [] c = ov_status_e_INFER_NOT_STARTED -> "InferNotStarted"
      [] c = ov_status_e_NETWORK_NOT_READ -> "NetworkNotRead"
      [] c = ov_status_e_INFER_CANCELLED -> "InferCancelled"
      [] c = ov_status_e_INVALID_C_PARAM -> "InvalidCParam"
      [] c = ov_status_e_UNKNOWN_C_ERROR -> "UnknownCError"
      [] c = ov_status_e_NOT_IMPLEMENT_C_METHOD -> "NotImplementCMethod"
      [] c = ov_status_e_UNKNOW_EXCEPTION -> "UnknownException"

\* the thread's call of from has returned (and the caller still holds the result)
Returned(t) == pc[t] = "returned"

\* the thread holds an error of a message-carrying variant
HoldsMessageError(t) ==
    /\ Returned(t)
    /\ result[t].tag = "Err"
    /\ result[t].err.kind \in MessageKinds

(***************************************************************************)
(* C1                                                                      *)
(***************************************************************************)
\* C1 as stated: for a known code, from returns Err of the variant the table
\* assigns to the code, and the message equals the content of the last-error
\* buffer, byte for byte.
C1_MessageEqualsChannel ==
    (Returned(Main) /\ error_code[Main] \in KnownCodes) =>
        result[Main] = Err(MessageError(TableVariant(error_code[Main]), Channel))

\* C1, amended: for a known code, from returns Err of the variant the table
\* assigns to the code, and the message is the lossy UTF-8 decoding of the
\* content of the last-error buffer: the content itself when it is valid
\* UTF-8, the content with every invalid sequence replaced by U+FFFD otherwise.
C1_MessageIsLossyChannel ==
    (Returned(Main) /\ error_code[Main] \in KnownCodes) =>
        /\ result[Main].tag = "Err"
        /\ result[Main].err.kind = TableVariant(error_code[Main])
        /\ DOMAIN result[Main].err = {"kind", "message"}
        /\ result[Main].err.message = to_string_lossy(Channel)
        /\ ValidUtf8(result[Main].err.message)
        /\ ValidUtf8(Channel) => result[Main].err.message = Channel

\* a known code was translated while the buffer held a byte that is not UTF-8
C1_Witness ==
    /\ Returned(Main)
    /\ error_code[Main] = ov_status_e_NOT_FOUND
    /\ Channel = <<55, 255>>
    /\ result[Main] = Err(MessageError("NotFound", <<55>> \o REPLACEMENT))

(***************************************************************************)
(* C2                                                                      *)
(***************************************************************************)
\* C2: for a code that is neither OK nor in the table, from returns
\* Err(Undefined(code)) with exactly that code, whatever the last-error buffer
\* holds.
C2_UnknownIsUndefined ==
    (Returned(Main) /\ error_code[Main] \notin KnownCodes \cup {ov_status_e_OK}) =>
        result[Main] = Err(Undefined(error_code[Main]))

\* an unknown code was translated while the buffer held a message
C2_Witness ==
    /\ Returned(Main)
    /\ error_code[Main] = I32Max
    /\ Channel = ModelId7
    /\ result[Main] = Err(Undefined(I32Max))

(***************************************************************************)
(* C3                                                                      *)
(***************************************************************************)
\* C3: from(OK) returns Ok(()) whatever the last-error buffer holds, and a call
\* of from that was given OK never reads the buffer: a call that has read it
\* was given a code other than OK.
C3_OkNeverReads ==
    /\ (Returned(Main) /\ error_code[Main] = ov_status_e_OK) =>
           /\ result[Main] = Ok
           /\ message[Main] = <<>>
    /\ did_read[Main] => error_code[Main] # ov_status_e_OK

\* OK was translated while the buffer held the message of an earlier failure
C3_Witness ==
    /\ Returned(Main)
    /\ error_code[Main] = ov_status_e_OK
    /\ Channel = ModelId7
    /\ result[Main] = Ok
    /\ ~did_read[Main]

(***************************************************************************)
(* C4                                                                      *)
(***************************************************************************)
\* the value is exactly one variant of InferenceError
IsInferenceError(e) ==
    \/ e.kind \in MessageKinds /\ DOMAIN e = {"kind", "message"}
    \/ e.kind = "Undefined" /\ DOMAIN e = {"kind", "code"}
           /\ e.code >= I32Min /\ e.code <= I32Max

\* C4: from is total: a call that has begun can always take its next step, and
\* a call that has returned has returned Ok(()) if the code is OK and Err of
\* exactly one InferenceError variant otherwise.
C4_Total ==
    /\ pc[Main] \in {"idle", "from", "read", "match", "returned", "setup"}
    /\ pc[Main] \in {"from", "read", "match"} =>
           ENABLED (FromCheck(Main) \/ FromRead(Main) \/ FromMatch(Main))
    /\ Returned(Main) =>
           IF error_code[Main] = ov_status_e_OK
           THEN result[Main] = Ok
           ELSE /\ result[Main].tag = "Err"
                /\ DOMAIN result[Main] = {"tag", "err"}
                /\ IsInferenceError(result[Main].err)

\* the least i32 was translated
C4_Witness ==
    /\ Returned(Main)
    /\ error_code[Main] = I32Min
    /\ result[Main] = Err(Undefined(I32Min))

KindOf(r) ==
    IF r.tag # "Err" THEN <<r.tag>>
    ELSE IF r.err.kind = "Undefined" THEN <<"Err", "Undefined", r.err.code>>
    ELSE <<"Err", r.err.kind>>

\* C6: under every interleaving, the kind of a thread's result is decided by
\* the status code that thread passed: OK gives success, a code of the table
\* its variant, any other code Undefined with that code; two threads that
\* passed the same code get the same kind, whatever messages they carry.
C6_KindFromCodeOnly ==
    /\ \A t \in Threads :
           Returned(t) =>
               KindOf(result[t]) =
                   IF error_code[t] = ov_status_e_OK THEN <<"Ok">>
                   ELSE IF error_code[t] \in KnownCodes
                        THEN <<"Err", TableVariant(error_code[t])>>
                   ELSE <<"Err", "Undefined", error_code[t]>>
    /\ \A t, u \in Threads :
           (Returned(t) /\ Returned(u) /\ error_code[t] = error_code[u]) =>
               KindOf(result[t]) = KindOf(result[u])

\* a thread got the message of the other thread's failure and still the
\* variant of its own code
C6_Witness ==
    /\ HoldsMessageError("t1")
    /\ interposed["t1"]
    /\ error_code["t1"] = ov_status_e_NOT_FOUND
    /\ error_code["t2"] = ov_status_e_REQUEST_BUSY
    /\ own["t1"] = <<55>>
    /\ result["t1"] = Err(MessageError("NotFound", <<>>))

(***************************************************************************)
(* C7                                                                      *)
(***************************************************************************)
\* InferenceErrors to compare a wrapped value with
InferenceSamples ==
    {MessageError(k, s) : k \in MessageKinds, s \in {<<>>, <<55>>, REPLACEMENT}}
        \cup {Undefined(c) : c \in UnknownCodes}

\* C7: a SetupError made from an InferenceError e is Inference(e) and one made
\* from a LoadingError l is Loading(l); matching on it takes the arm of its
\* family and gives back the original value; no other input of either
\* conversion gives the same SetupError.
C7_WrapIsInjective ==
    pc[Main] = "setup" =>
        /\ setup[Main] = [tag |-> original[Main].arm, inner |-> original[Main].value]
        /\ match_setup(setup[Main]) = original[Main]
        /\ matched[Main] # NoMatch => matched[Main] = original[Main]
        /\ \A e \in InferenceSamples :
               from_inference(e) = setup[Main] =>
                   original[Main] = [arm |-> "Inference", value |-> e]
        /\ \A l \in LoadingErrors :
               from_loading(l) = setup[Main] =>
                   original[Main] = [arm |-> "Loading", value |-> l]

\* CannotFindLibraryPath was wrapped and matched
C7_Witness ==
    /\ pc[Main] = "setup"
    /\ original[Main] = [arm |-> "Loading", value |-> CannotFindLibraryPath]
    /\ matched[Main] = [arm |-> "Loading", value |-> CannotFindLibraryPath]

(***************************************************************************)
(* C8                                                                      *)
(***************************************************************************)
\* the description of each message-carrying variant
KindDescription(kind) ==
    CASE kind = "GeneralError" -> "general error"
      [] kind = "NotImplemented" -> "not implemented"
      [] kind = "NetworkNotLoaded" -> "network not loaded"
      [] kind = "ParameterMismatch" -> "parameter mismatch"
      [] kind = "NotFound" -> "not found"
      [] kind = "OutOfBounds" -> "out of bounds"
      [] kind = "Unexpected" -> "unexpected"
      [] kind = "RequestBusy" -> "request busy"
      [] kind = "ResultNotReady" -> "result not ready"
      [] kind = "NotAllocated" -> "not allocated"
      [] kind = "InferNotStarted" -> "infer not started"
      [] kind = "NetworkNotRead" -> "network not read"
      [] kind = "InferCancelled" -> "infer cancelled"
      [] kind = "InvalidCParam" -> "invalid c parameter"
      [] kind = "UnknownCError" -> "unknown C error"
      [] kind = "NotImplementCMethod" -> "not implemented C method"
      [] kind = "UnknownException" -> "unknown exception"

\* C8: an InferenceError renders as "<kind description>: (<message>)" when it
\* carries a message and as "undefined error code: <code>" when it is
\* Undefined(code), the code in decimal; NotFound with "model id 7" renders as
\* "not found: (model id 7)" and Undefined(9999) as "undefined error code: 9999".
C8_RenderedText ==
    text[Main] # "" =>
        LET e == result[Main].err
        IN  /\ e.kind \in MessageKinds =>
                   text[Main] = KindDescription(e.kind) \o ": (" \o FmtString(e.message) \o ")"
            /\ e.kind = "Undefined" =>
                   text[Main] = "undefined error code: " \o FmtI32(e.code)
            /\ e = MessageError("NotFound", ModelId7) =>
                   text[Main] = "not found: (model id 7)"
            /\ e = Undefined(9999) => text[Main] = "undefined error code: 9999"
            /\ e = Undefined(-18) => text[Main] = "undefined error code: -18"
            /\ e = Undefined(I32Min) => text[Main] = "undefined error code: -2147483648"

\* NotFound with the message "model id 7" was rendered
C8_Witness ==
    /\ result[Main] = Err(MessageError("NotFound", ModelId7))
    /\ text[Main] = "not found: (model id 7)"

(***************************************************************************)
(* C9                                                                      *)
(***************************************************************************)
\* C9: from takes no lock around its read of the last-error buffer: a thread
\* that is about to read can read at once, whatever the other threads are
\* doing.
C9_ReadNeverWaits ==
    \A t \in Threads : pc[t] = "read" => ENABLED FromRead(t)

\* a thread's error carries the message written by the other thread's later
\* failing call instead of its own
C9_Witness ==
    /\ HoldsMessageError("t1")
    /\ interposed["t1"]
    /\ own["t1"] = <<55>>
    /\ own["t2"] = <<255>>
    /\ pc["t2"] \in {"from", "read"}
    /\ result["t1"].err.message = REPLACEMENT

=============================================================================
